---- MODULE Spec2Model ----
(***************************************************************************)
(* Model of capture.go (package capture): CaptureOuts.Exec starts a child  *)
(* process, two reader goroutines (capture) segment its stdout and stderr  *)
(* into lines appended under c.mut to c.lines / c.isStdErr, and observers  *)
(* read the log with GetComboOutSoFar and BytesSoFar.                      *)
(*                                                                         *)
(* A byte of child output is a record [s, i, nl]: s is the stream it was   *)
(* written to (0 stdout, 1 stderr), i its position in that stream and nl   *)
(* whether it is the '\n' byte.  A string is a sequence of bytes.          *)
(***************************************************************************)
EXTENDS Integers, Sequences, FiniteSets

\* ---- bounds ----
MaxLen == 2      \* bytes the child writes per stream
MaxErrs == 1     \* non-EOF read errors injected in one session

Streams == {0, 1}

VARIABLES
  lines,      \* c.lines
  isStdErr,   \* c.isStdErr
  halfline,   \* c.halfline[a]: <<>> is nil, <<str>> a pointer to str
  mut,        \* c.mut: "free" or the holder ("r0", "r1", "obs")
  wg,         \* c.wg counter
  Done,       \* c.Done: "open" or "closed"
  Err,        \* c.Err
  execPc,     \* position of the goroutine running Exec
  ret,        \* value returned by Exec ("none" until it returns)
  rpc,        \* position of each reader goroutine
  line,       \* reader local: line returned by ReadString
  err,        \* reader local: err of the inner loop
  child,      \* child process: "none", "running", "exited"
  exitOK,     \* the child exited with a success status
  emitted,    \* bytes the child has written to each stream
  rpos,       \* bytes of each stream consumed by the bufio reader
  wclosed,    \* write end of the pipe is closed
  rclosed,    \* read end of the pipe is closed
  nerrs,      \* non-EOF read errors injected so far
  opc,        \* position of the observer in GetComboOutSoFar
  getIsStdErrorSlice, \* observer argument
  res,        \* observer local: res
  resIsStdErr,\* observer local: isStdErr (<<>> nil, <<seq>> a slice)
  snap,       \* what the observer's latest GetComboOutSoFar call returned
  bpc,        \* position of the goroutine calling BytesSoFar
  bview,      \* BytesSoFar: the c.lines slice its range statement iterates
  bsf         \* what the latest BytesSoFar call returned

vars == <<lines, isStdErr, halfline, mut, wg, Done, Err, execPc, ret, rpc,
          line, err, child, exitOK, emitted, rpos, wclosed, rclosed, nerrs,
          opc, getIsStdErrorSlice, res, resIsStdErr, snap, bpc, bview, bsf>>

logVars   == <<lines, isStdErr>>
execVars  == <<Done, Err, execPc, ret>>
rdrVars   == <<rpc, line, err, halfline>>
childVars == <<child, exitOK, emitted, wclosed>>
pipeVars  == <<rpos, rclosed, nerrs>>
gcoVars   == <<opc, getIsStdErrorSlice, res, resIsStdErr, snap>>
bsfVars   == <<bpc, bview, bsf>>
obsVars   == <<gcoVars, bsfVars>>

\* ---- helpers ----
Holder(a) == IF a = 0 THEN "r0" ELSE "r1"

\* mutant: the two capture calls pass the wrong isStdout
IsStdoutSwapped(a) == a = 1

\* a := 1; if isStdout { a = 0 }
IsStdout(a) == a = 0

\* strings.HasSuffix(line, "\n")
HasSuffixNL(ln) == ln # <<>> /\ ln[Len(ln)].nl

\* index of the first '\n' of s, 0 when there is none
FirstNL(s) ==
  IF \E k \in 1..Len(s) : s[k].nl
  THEN CHOOSE k \in 1..Len(s) : s[k].nl /\ \A j \in 1..(k-1) : ~s[j].nl
  ELSE 0

\* bytes written to stream a and not yet consumed by its bufio reader
Avail(a) == SubSeq(emitted[a], rpos[a] + 1, Len(emitted[a]))

IsPrefix(s, t) == Len(s) <= Len(t) /\ SubSeq(t, 1, Len(s)) = s

Init ==
  /\ lines = <<>>
  /\ isStdErr = <<>>
  /\ halfline = [a \in Streams |-> <<>>]
  /\ mut = "free"
  /\ wg = 0
  /\ Done = "open"
  /\ Err = "nil"
  /\ execPc = "idle"
  /\ ret = "none"
  /\ rpc = [a \in Streams |-> "none"]
  /\ line = [a \in Streams |-> <<>>]
  /\ err = [a \in Streams |-> "nil"]
  /\ child = "none"
  /\ exitOK = TRUE
  /\ emitted = [a \in Streams |-> <<>>]
  /\ rpos = [a \in Streams |-> 0]
  /\ wclosed = [a \in Streams |-> FALSE]
  /\ rclosed = [a \in Streams |-> FALSE]
  /\ nerrs = 0
  /\ opc = "idle"
  /\ getIsStdErrorSlice = FALSE
  /\ res = <<>>
  /\ resIsStdErr = <<>>
  /\ snap = [res |-> <<>>, isStdErr |-> <<>>]
  /\ bpc = "idle"
  /\ bview = <<>>
  /\ bsf = <<>>

\* ---- the child process and its pipes (os/exec, seen from Exec) ----
ChildWrite(a, nl) ==
  /\ child = "running"
  /\ ~wclosed[a]
  /\ Len(emitted[a]) < MaxLen
  /\ emitted' = [emitted EXCEPT
                   ![a] = Append(@, [s |-> a, i |-> Len(@) + 1, nl |-> nl])]
  /\ UNCHANGED <<logVars, mut, wg, execVars, rdrVars, child, exitOK, wclosed,
                 pipeVars, obsVars>>

ChildClose(a) ==
  /\ child = "running"
  /\ ~wclosed[a]
  /\ wclosed' = [wclosed EXCEPT ![a] = TRUE]
  /\ UNCHANGED <<logVars, mut, wg, execVars, rdrVars, child, exitOK, emitted,
                 pipeVars, obsVars>>

ChildExit(ok) ==
  /\ child = "running"
  /\ child' = "exited"
  /\ exitOK' = ok
  /\ wclosed' = [a \in Streams |-> TRUE]
  /\ UNCHANGED <<logVars, mut, wg, execVars, rdrVars, emitted, pipeVars,
                 obsVars>>

\* ---- Exec ----
\* mutant: capture spawns the reader without c.wg.Add(1)
captureNoAdd(a) ==
  /\ wg' = wg
  /\ rpc' = [rpc EXCEPT ![a] = "read"]

\* capture(r, isStdout): c.wg.Add(1), then the reader goroutine is spawned
capture(a) ==
  /\ wg' = wg + 1
  /\ rpc' = [rpc EXCEPT ![a] = "read"]

ExecCall ==
  /\ execPc = "idle"
  /\ execPc' = "captureOut"
  /\ UNCHANGED <<logVars, mut, wg, Done, Err, ret, rdrVars, childVars,
                 pipeVars, obsVars>>

ExecCaptureStdout ==
  /\ execPc = "captureOut"
  /\ capture(0)
  /\ execPc' = "captureErr"
  /\ UNCHANGED <<logVars, mut, Done, Err, ret, line, err, halfline, childVars,
                 pipeVars, obsVars>>

ExecCaptureStderr ==
  /\ execPc = "captureErr"
  /\ capture(1)
  /\ execPc' = "start"
  /\ UNCHANGED <<logVars, mut, Done, Err, ret, line, err, halfline, childVars,
                 pipeVars, obsVars>>

ExecStartOK ==
  /\ execPc = "start"
  /\ child' = "running"
  /\ execPc' = "wgWait"
  /\ UNCHANGED <<logVars, mut, wg, Done, Err, ret, rdrVars, exitOK, emitted,
                 wclosed, pipeVars, obsVars>>

\* cmd.Start() fails: it closes the child's ends of the pipes ...
ExecStartFail ==
  /\ execPc = "start"
  /\ wclosed' = [a \in Streams |-> TRUE]
  /\ execPc' = "startFailed"
  /\ UNCHANGED <<logVars, mut, wg, Done, Err, ret, rdrVars, child, exitOK,
                 emitted, pipeVars, obsVars>>

\* mutant: close(c.Done) is not deferred, the early return skips it
ExecStartErrNoClose ==
  /\ execPc = "startFailed"
  /\ rclosed' = [a \in Streams |-> TRUE]
  /\ Err' = "StartFailure"
  /\ ret' = "StartFailure"
  /\ execPc' = "returned"
  /\ UNCHANGED <<logVars, mut, wg, Done, rdrVars, childVars, rpos, nerrs,
                 obsVars>>

\* ... then the parent's ends, and returns the error, which Exec records
ExecStartErr ==
  /\ execPc = "startFailed"
  /\ rclosed' = [a \in Streams |-> TRUE]
  /\ Err' = "StartFailure"
  /\ ret' = "StartFailure"
  /\ execPc' = "closeDone"
  /\ UNCHANGED <<logVars, mut, wg, Done, rdrVars, childVars, rpos, nerrs,
                 obsVars>>

\* mutant: Exec does not wait for the readers before cmd.Wait()
ExecWgWaitSkipped ==
  /\ execPc = "wgWait"
  /\ execPc' = "cmdWait"
  /\ UNCHANGED <<logVars, mut, wg, Done, Err, ret, rdrVars, childVars,
                 pipeVars, obsVars>>

\* c.wg.Wait()
ExecWgWait ==
  /\ execPc = "wgWait"
  /\ wg = 0
  /\ execPc' = "cmdWait"
  /\ UNCHANGED <<logVars, mut, wg, Done, Err, ret, rdrVars, childVars,
                 pipeVars, obsVars>>

\* mutant: Exec reports a read error of a reader when cmd.Wait() succeeds
ExecCmdWaitOKFold ==
  /\ execPc = "cmdWait"
  /\ child = "exited"
  /\ exitOK
  /\ Err' = IF nerrs > 0 THEN "ReadFailure" ELSE Err
  /\ ret' = Err'
  /\ execPc' = "closeDone"
  /\ UNCHANGED <<logVars, mut, wg, Done, rdrVars, childVars, pipeVars,
                 obsVars>>

\* cmd.Wait() returns once the child has exited, nil for a successful exit
ExecCmdWaitOK ==
  /\ execPc = "cmdWait"
  /\ child = "exited"
  /\ exitOK
  /\ ret' = "nil"
  /\ execPc' = "closeDone"
  /\ UNCHANGED <<logVars, mut, wg, Done, Err, rdrVars, childVars, pipeVars,
                 obsVars>>

\* mutant: the failed wait throws the captured output away
ExecCmdWaitFailDrop ==
  /\ execPc = "cmdWait"
  /\ child = "exited"
  /\ ~exitOK
  /\ Err' = "WaitFailure"
  /\ ret' = "WaitFailure"
  /\ lines' = <<>>
  /\ isStdErr' = <<>>
  /\ execPc' = "closeDone"
  /\ UNCHANGED <<mut, wg, Done, rdrVars, childVars, pipeVars, obsVars>>

\* mutant: the failed wait returns the error without storing it in c.Err
ExecCmdWaitFailNoErr ==
  /\ execPc = "cmdWait"
  /\ child = "exited"
  /\ ~exitOK
  /\ ret' = "WaitFailure"
  /\ execPc' = "closeDone"
  /\ UNCHANGED <<logVars, mut, wg, Done, Err, rdrVars, childVars, pipeVars,
                 obsVars>>

\* ... and an error for a failure status, which Exec records
ExecCmdWaitFail ==
  /\ execPc = "cmdWait"
  /\ child = "exited"
  /\ ~exitOK
  /\ Err' = "WaitFailure"
  /\ ret' = "WaitFailure"
  /\ execPc' = "closeDone"
  /\ UNCHANGED <<logVars, mut, wg, Done, rdrVars, childVars, pipeVars,
                 obsVars>>

\* defer close(c.Done)
ExecCloseDone ==
  /\ execPc = "closeDone"
  /\ Done = "open"
  /\ Done' = "closed"
  /\ execPc' = "returned"
  /\ UNCHANGED <<logVars, mut, wg, Err, ret, rdrVars, childVars, pipeVars,
                 obsVars>>

\* ---- Exec called again on the same CaptureOuts ----
\* a second call, once the first has returned and its readers have too:
\* exec.Command and the two pipes are new, the fields of c are as the first
\* call left them (c.Done closed, c.Err, c.lines). emitted and rpos go on
\* counting from the drained pipes of the first child. The call is made
\* after sessions that left no fragment in c.halfline only: a fragment left
\* there is flushed again by every failed read of the second call, without
\* end when its cmd.Start() fails.
ExecCallAgain ==
  /\ execPc = "returned"
  /\ \A a \in Streams :
       /\ rpc[a] = "done"
       /\ rpos[a] = Len(emitted[a])
       /\ halfline[a] = <<>>
  /\ execPc' = "captureOut"
  /\ ret' = "none"
  /\ rpc' = [a \in Streams |-> "none"]
  /\ line' = [a \in Streams |-> <<>>]
  /\ err' = [a \in Streams |-> "nil"]
  /\ child' = "none"
  /\ exitOK' = TRUE
  /\ wclosed' = [a \in Streams |-> FALSE]
  /\ rclosed' = [a \in Streams |-> FALSE]
  /\ UNCHANGED <<logVars, mut, wg, Done, Err, halfline, emitted, rpos, nerrs,
                 obsVars>>

\* mutant: close of a closed channel does nothing and Exec returns
ExecCloseDoneAgain ==
  /\ execPc = "closeDone"
  /\ Done = "closed"
  /\ execPc' = "returned"
  /\ UNCHANGED <<logVars, mut, wg, Done, Err, ret, rdrVars, childVars,
                 pipeVars, obsVars>>

\* the deferred close(c.Done) of a second call: close of a closed channel
\* panics, Exec does not return
ExecCloseDonePanic ==
  /\ execPc = "closeDone"
  /\ Done = "closed"
  /\ execPc' = "panic"
  /\ UNCHANGED <<logVars, mut, wg, Done, Err, ret, rdrVars, childVars,
                 pipeVars, obsVars>>

\* ---- the reader goroutine of capture ----
\* where the goroutine goes when the inner loop ends with pending slot hl:
\* the test of line 149
AfterLoop(hl) ==
  IF hl # <<>> /\ hl[1] # <<>> THEN "flushLock" ELSE "eofChk"

\* lines 129-147 once ReadString has returned (ln, e)
AfterRead(a, ln, e) ==
  IF HasSuffixNL(ln)
  THEN /\ line' = [line EXCEPT ![a] = ln]
       /\ err' = [err EXCEPT ![a] = e]
       /\ rpc' = [rpc EXCEPT ![a] = "lock"]
       /\ UNCHANGED halfline
  ELSE /\ halfline' = IF ln # <<>> THEN [halfline EXCEPT ![a] = <<ln>>]
                      ELSE halfline
       /\ err' = [err EXCEPT ![a] = e]
       /\ rpc' = [rpc EXCEPT ![a] = IF e = "nil" THEN "read"
                                    ELSE AfterLoop(halfline'[a])]
       /\ UNCHANGED line

\* ReadString finds a '\n': the line through it, err nil
ReadLine(a) ==
  /\ rpc[a] = "read"
  /\ ~rclosed[a]
  /\ FirstNL(Avail(a)) > 0
  /\ AfterRead(a, SubSeq(Avail(a), 1, FirstNL(Avail(a))), "nil")
  /\ rpos' = [rpos EXCEPT ![a] = @ + FirstNL(Avail(a))]
  /\ UNCHANGED <<logVars, mut, wg, execVars, childVars, rclosed, nerrs,
                 obsVars>>

\* ReadString reaches end-of-stream: the remainder, io.EOF
ReadEOF(a) ==
  /\ rpc[a] = "read"
  /\ ~rclosed[a]
  /\ wclosed[a]
  /\ FirstNL(Avail(a)) = 0
  /\ AfterRead(a, Avail(a), "EOF")
  /\ rpos' = [rpos EXCEPT ![a] = Len(emitted[a])]
  /\ UNCHANGED <<logVars, mut, wg, execVars, childVars, rclosed, nerrs,
                 obsVars>>

\* the underlying read fails with an error other than io.EOF: ReadString
\* returns the '\n'-free data read before the error, and the error
ReadErr(a) ==
  /\ rpc[a] = "read"
  /\ ~rclosed[a]
  /\ nerrs < MaxErrs
  /\ \E n \in 0..Len(Avail(a)) :
       /\ FirstNL(SubSeq(Avail(a), 1, n)) = 0
       /\ AfterRead(a, SubSeq(Avail(a), 1, n), "ioerr")
       /\ rpos' = [rpos EXCEPT ![a] = @ + n]
  /\ nerrs' = nerrs + 1
  /\ UNCHANGED <<logVars, mut, wg, execVars, childVars, rclosed, obsVars>>

\* the read end was closed by the failed cmd.Start(): every read fails
ReadClosed(a) ==
  /\ rpc[a] = "read"
  /\ rclosed[a]
  /\ AfterRead(a, <<>>, "ioerr")
  /\ UNCHANGED <<logVars, mut, wg, execVars, childVars, pipeVars, obsVars>>

\* mutant: the new line is put in front of the log
RdrAppendLineFront(a) ==
  /\ rpc[a] = "lock"
  /\ mut = "free"
  /\ mut' = Holder(a)
  /\ lines' = IF halfline[a] # <<>>
              THEN <<halfline[a][1] \o line[a]>> \o lines
              ELSE <<line[a]>> \o lines
  /\ rpc' = [rpc EXCEPT ![a] = "appendTag"]
  /\ UNCHANGED <<isStdErr, wg, execVars, line, err, halfline, childVars,
                 pipeVars, obsVars>>

\* c.mut.Lock() and the append to c.lines (lines 131-133, 137)
RdrAppendLine(a) ==
  /\ rpc[a] = "lock"
  /\ mut = "free"
  /\ mut' = Holder(a)
  /\ lines' = IF halfline[a] # <<>>
              THEN Append(lines, halfline[a][1] \o line[a])
              ELSE Append(lines, line[a])
  /\ rpc' = [rpc EXCEPT ![a] = "appendTag"]
  /\ UNCHANGED <<isStdErr, wg, execVars, line, err, halfline, childVars,
                 pipeVars, obsVars>>

\* the append to c.isStdErr and c.halfline[a] = nil (lines 134-135, 138)
RdrAppendTag(a) ==
  /\ rpc[a] = "appendTag"
  /\ isStdErr' = Append(isStdErr, ~IsStdout(a))
  /\ halfline' = [halfline EXCEPT ![a] = <<>>]
  /\ rpc' = [rpc EXCEPT ![a] = "unlock"]
  /\ UNCHANGED <<lines, mut, wg, execVars, line, err, childVars, pipeVars,
                 obsVars>>

\* mutant: the reader goes back to ReadString without c.mut.Unlock()
RdrUnlockKeep(a) ==
  /\ rpc[a] = "unlock"
  /\ line' = [line EXCEPT ![a] = <<>>]
  /\ rpc' = [rpc EXCEPT ![a] = IF err[a] = "nil" THEN "read"
                               ELSE AfterLoop(halfline[a])]
  /\ UNCHANGED <<logVars, mut, wg, execVars, err, halfline, childVars,
                 pipeVars, obsVars>>

\* c.mut.Unlock() and the loop test: err is nil after a full line
RdrUnlock(a) ==
  /\ rpc[a] = "unlock"
  /\ mut' = "free"
  /\ line' = [line EXCEPT ![a] = <<>>]
  /\ rpc' = [rpc EXCEPT ![a] = IF err[a] = "nil" THEN "read"
                               ELSE AfterLoop(halfline[a])]
  /\ UNCHANGED <<logVars, wg, execVars, err, halfline, childVars,
                 pipeVars, obsVars>>

\* mutant: the flushed fragment is put in front of the log
RdrFlushLineFront(a) ==
  /\ rpc[a] = "flushLock"
  /\ mut = "free"
  /\ mut' = Holder(a)
  /\ lines' = <<halfline[a][1]>> \o lines
  /\ rpc' = [rpc EXCEPT ![a] = "flushTag"]
  /\ UNCHANGED <<isStdErr, wg, execVars, line, err, halfline, childVars,
                 pipeVars, obsVars>>

\* c.mut.Lock() and the append of the pending slot to c.lines (150-151)
RdrFlushLine(a) ==
  /\ rpc[a] = "flushLock"
  /\ mut = "free"
  /\ mut' = Holder(a)
  /\ lines' = Append(lines, halfline[a][1])
  /\ rpc' = [rpc EXCEPT ![a] = "flushTag"]
  /\ UNCHANGED <<isStdErr, wg, execVars, line, err, halfline, childVars,
                 pipeVars, obsVars>>

\* mutant: c.mut.Unlock() is called before the append to c.isStdErr
RdrFlushTagAfterUnlock(a) ==
  /\ rpc[a] = "flushTag"
  /\ mut' = "free"
  /\ isStdErr' = Append(isStdErr, ~IsStdout(a))
  /\ rpc' = [rpc EXCEPT ![a] = "flushUnlock"]
  /\ UNCHANGED <<lines, wg, execVars, line, err, halfline, childVars,
                 pipeVars, obsVars>>

\* the append to c.isStdErr (line 152)
RdrFlushTag(a) ==
  /\ rpc[a] = "flushTag"
  /\ isStdErr' = Append(isStdErr, ~IsStdout(a))
  /\ rpc' = [rpc EXCEPT ![a] = "flushUnlock"]
  /\ UNCHANGED <<lines, mut, wg, execVars, line, err, halfline, childVars,
                 pipeVars, obsVars>>

RdrFlushUnlock(a) ==
  /\ rpc[a] = "flushUnlock"
  /\ mut' = "free"
  /\ rpc' = [rpc EXCEPT ![a] = "eofChk"]
  /\ UNCHANGED <<logVars, wg, execVars, line, err, halfline, childVars,
                 pipeVars, obsVars>>

\* mutant: the goroutine returns after any error, not only io.EOF
RdrEofCheckAnyErr(a) ==
  /\ rpc[a] = "eofChk"
  /\ rpc' = [rpc EXCEPT ![a] = "done"]
  /\ wg' = wg - 1
  /\ UNCHANGED <<logVars, mut, execVars, line, err, halfline, childVars,
                 pipeVars, obsVars>>

\* mutant: the goroutine returns at io.EOF without c.wg.Done()
RdrEofCheckNoDone(a) ==
  /\ rpc[a] = "eofChk"
  /\ IF err[a] = "EOF"
     THEN /\ rpc' = [rpc EXCEPT ![a] = "done"]
          /\ UNCHANGED err
     ELSE /\ rpc' = [rpc EXCEPT ![a] = "read"]
          /\ err' = [err EXCEPT ![a] = "nil"]
  /\ UNCHANGED <<logVars, mut, wg, execVars, line, halfline, childVars,
                 pipeVars, obsVars>>

\* if err == io.EOF { return }, with the deferred c.wg.Done(); otherwise the
\* outer loop starts again with a fresh err
RdrEofCheck(a) ==
  /\ rpc[a] = "eofChk"
  /\ IF err[a] = "EOF"
     THEN /\ rpc' = [rpc EXCEPT ![a] = "done"]
          /\ wg' = wg - 1
          /\ UNCHANGED err
     ELSE /\ rpc' = [rpc EXCEPT ![a] = "read"]
          /\ err' = [err EXCEPT ![a] = "nil"]
          /\ UNCHANGED wg
  /\ UNCHANGED <<logVars, mut, execVars, line, halfline, childVars,
                 pipeVars, obsVars>>

\* ---- GetComboOutSoFar, called by an observer goroutine ----
\* the call: the goroutine is now at c.mut.Lock() (line 52)
ObsCall ==
  /\ opc = "idle"
  /\ opc' = "lock"
  /\ UNCHANGED <<logVars, mut, wg, execVars, rdrVars, childVars, pipeVars,
                 getIsStdErrorSlice, res, resIsStdErr, snap, bsfVars>>

\* mutant: GetComboOutSoFar copies without taking c.mut
ObsCopyLinesNoLock(flag) ==
  /\ opc = "lock"
  /\ getIsStdErrorSlice' = flag
  /\ res' = lines
  /\ opc' = "copyTags"
  /\ UNCHANGED <<logVars, mut, wg, execVars, rdrVars, childVars, pipeVars,
                 resIsStdErr, snap, bsfVars>>

\* c.mut.Lock() and the copy of c.lines (52-55)
ObsCopyLines(flag) ==
  /\ opc = "lock"
  /\ mut = "free"
  /\ mut' = "obs"
  /\ getIsStdErrorSlice' = flag
  /\ res' = lines
  /\ opc' = "copyTags"
  /\ UNCHANGED <<logVars, wg, execVars, rdrVars, childVars, pipeVars,
                 resIsStdErr, snap, bsfVars>>

ObsCopyTags ==
  /\ opc = "copyTags"
  /\ resIsStdErr' = IF getIsStdErrorSlice THEN <<isStdErr>> ELSE <<>>
  /\ opc' = "unlock"
  /\ UNCHANGED <<logVars, mut, wg, execVars, rdrVars, childVars, pipeVars,
                 getIsStdErrorSlice, res, snap, bsfVars>>

\* c.mut.Unlock() and return
ObsReturn ==
  /\ opc = "unlock"
  /\ mut' = "free"
  /\ res' = <<>>
  /\ resIsStdErr' = <<>>
  /\ getIsStdErrorSlice' = FALSE
  /\ opc' = "idle"
  /\ UNCHANGED <<logVars, wg, execVars, rdrVars, childVars, pipeVars,
                 bsfVars>>

\* the return, with the returned values recorded in snap
ObsUnlock ==
  /\ ObsReturn
  /\ snap' = [res |-> res, isStdErr |-> resIsStdErr]

\* the return, with the returned values dropped by the caller
ObsUnlockDrop ==
  /\ ObsReturn
  /\ snap' = snap

\* ---- BytesSoFar, called by an observer goroutine ----
\* the strings of ls written one after the other (b.WriteString in a loop)
RECURSIVE Concat(_)
Concat(ls) == IF ls = <<>> THEN <<>> ELSE Head(ls) \o Concat(Tail(ls))

\* a reader goroutine is between its append to c.lines and its Unlock
Appending == \E a \in Streams : rpc[a] \in {"appendTag", "flushTag"}

\* what an unsynchronised read of the slice header c.lines can give: the
\* current slice, or, racing with an append, the slice before that append
LinesViews ==
  IF Appending THEN {lines, SubSeq(lines, 1, Len(lines) - 1)} ELSE {lines}

\* `range c.lines` evaluates c.lines once, without c.mut; racing with an
\* append it may also pair the old array with the new length and fault
BsfRange ==
  /\ bpc = "idle"
  /\ \/ /\ bview' \in LinesViews
        /\ bpc' = "range"
     \/ /\ Appending
        /\ bview' = bview
        /\ bpc' = "fault"
  /\ UNCHANGED <<logVars, mut, wg, execVars, rdrVars, childVars, pipeVars,
                 gcoVars, bsf>>

\* the loop over the strings and return b.Bytes()
BsfReturn ==
  /\ bpc = "range"
  /\ bsf' = Concat(bview)
  /\ bview' = <<>>
  /\ bpc' = "idle"
  /\ UNCHANGED <<logVars, mut, wg, execVars, rdrVars, childVars, pipeVars,
                 gcoVars>>

Next ==
  \/ ExecCall
  \/ ExecCaptureStdout
  \/ ExecCaptureStderr
  \/ ExecStartOK
  \/ ExecStartFail
  \/ ExecStartErr
  \/ ExecWgWait
  \/ ExecCmdWaitOK
  \/ ExecCmdWaitFail
  \/ ExecCloseDone
  \/ \E a \in Streams, nl \in BOOLEAN : ChildWrite(a, nl)
  \/ \E a \in Streams : ChildClose(a)
  \/ \E ok \in BOOLEAN : ChildExit(ok)
  \/ \E a \in Streams : ReadLine(a)
  \/ \E a \in Streams : ReadEOF(a)
  \/ \E a \in Streams : ReadErr(a)
  \/ \E a \in Streams : ReadClosed(a)
  \/ \E a \in Streams : RdrAppendLine(a)
  \/ \E a \in Streams : RdrAppendTag(a)
  \/ \E a \in Streams : RdrUnlock(a)
  \/ \E a \in Streams : RdrFlushLine(a)
  \/ \E a \in Streams : RdrFlushTag(a)
  \/ \E a \in Streams : RdrFlushUnlock(a)
  \/ \E a \in Streams : RdrEofCheck(a)

\* Exec, its two readers and the child
Spec == Init /\ [][Next]_vars

NextObs ==
  \/ Next
  \/ ObsCall
  \/ \E flag \in BOOLEAN : ObsCopyLines(flag)
  \/ ObsCopyTags
  \/ ObsUnlock

\* the same, with a goroutine that calls GetComboOutSoFar again and again
SpecObs == Init /\ [][NextObs]_vars

\* the steps of the goroutine that runs Exec
ExecStep ==
  \/ ExecCall
  \/ ExecCaptureStdout
  \/ ExecCaptureStderr
  \/ ExecStartOK
  \/ ExecStartFail
  \/ ExecStartErr
  \/ ExecWgWait
  \/ ExecCmdWaitOK
  \/ ExecCmdWaitFail
  \/ ExecCloseDone

\* the steps of the reader goroutine of stream a
RdrStep(a) ==
  \/ ReadLine(a)
  \/ ReadEOF(a)
  \/ ReadErr(a)
  \/ ReadClosed(a)
  \/ RdrAppendLine(a)
  \/ RdrAppendTag(a)
  \/ RdrUnlock(a)
  \/ RdrFlushLine(a)
  \/ RdrFlushTag(a)
  \/ RdrFlushUnlock(a)
  \/ RdrEofCheck(a)

\* Spec with goroutines that are scheduled fairly (each keeps taking the
\* steps it can take) and a child that exits, which closes its ends of the
\* pipes; nothing obliges the child to write
FairSpec ==
  /\ Spec
  /\ WF_vars(ExecStep)
  /\ \A a \in Streams : WF_vars(RdrStep(a))
  /\ WF_vars(\E ok \in BOOLEAN : ChildExit(ok))

NextTwice ==
  \/ Next
  \/ ExecCallAgain
  \/ ExecCloseDonePanic

\* Exec, its readers and the child, with a caller that calls Exec again
\* after it has returned
SpecTwice == Init /\ [][NextTwice]_vars

NextBytes ==
  \/ Next
  \/ BsfRange
  \/ BsfReturn

\* Exec, its readers and the child, with a goroutine that calls BytesSoFar
\* again and again
SpecBytes == Init /\ [][NextBytes]_vars

\* the steps of a call of GetComboOutSoFar once it is made
ObsStep ==
  \/ \E flag \in BOOLEAN : ObsCopyLines(flag)
  \/ ObsCopyTags
  \/ ObsUnlockDrop

NextCall ==
  \/ Next
  \/ ObsCall
  \/ ObsStep

\* Exec, its readers and the child, with a goroutine that calls
\* GetComboOutSoFar again and again and does not keep what it returns; the
\* reader and observer goroutines are scheduled fairly (each keeps taking
\* the steps it can take), and nothing obliges the observer to call, the
\* child to write or to exit, or Exec to proceed
FairCall ==
  /\ Init /\ [][NextCall]_vars
  /\ \A a \in Streams : WF_vars(RdrStep(a))
  /\ WF_vars(ObsStep)

\* ---- the claims ----
\* cmd.Start() succeeded
Started == child # "none"

\* Exec has passed c.wg.Wait(): cmd.Wait() is issued or has returned
WaitIssued == Started /\ execPc \in {"cmdWait", "closeDone", "returned"}

\* GetComboOutSoFar, resp. BytesSoFar, is reading c.lines
GcoReading == opc \in {"copyTags", "unlock"}
BsfReading == bpc = "range"

\* reader a has returned from its goroutine
Terminated(a) == rpc[a] = "done"

\* the indices of the log entries appended by reader a
EntriesOf(a) == {i \in 1..Len(lines) : lines[i][1].s = a}

\* C1: whenever cmd.Wait() has been issued after a successful start, both
\* readers have terminated: each has seen io.EOF with its stream drained, and
\* a pending fragment it held has been flushed to the log.
C1_WaitAfterReaders ==
  WaitIssued =>
    \A a \in Streams :
      /\ Terminated(a)
      /\ err[a] = "EOF"
      /\ rpos[a] = Len(emitted[a])
      /\ halfline[a] # <<>> => \E i \in EntriesOf(a) : lines[i] = halfline[a][1]

\* cmd.Wait() is issued while the child still runs, with output in the log
C1_Witness ==
  /\ execPc = "cmdWait"
  /\ child = "running"
  /\ Len(lines) >= 2

\* C2: with one call of Exec, c.Done is closed exactly when Exec has returned
\* (on the start-failure, wait-failure and success paths alike), and once
\* closed it stays closed.
C2_DoneOnce ==
  /\ [](Done = "closed" <=> execPc = "returned")
  /\ [][Done = "closed" => Done' = "closed"]_vars

\* Exec has returned through the early return of the start failure
C2_Witness ==
  /\ Done = "closed"
  /\ ret = "StartFailure"

\* C3: the lines GetComboOutSoFar returned earlier are a prefix of the lines
\* a later call copies, and of the log itself at every later instant.
C3_SnapshotMonotone ==
  /\ IsPrefix(snap.res, lines)
  /\ GcoReading => IsPrefix(snap.res, res)

\* a second call is about to return more lines than the first one returned,
\* while Exec is still running
C3_Witness ==
  /\ opc = "unlock"
  /\ snap.res # <<>>
  /\ Len(res) > Len(snap.res)
  /\ Done = "open"

\* C4: whenever c.mut is free, c.lines and c.isStdErr have the same length,
\* and GetComboOutSoFar(true) returns two slices of equal length.
C4_EqualLength ==
  /\ mut = "free" => Len(lines) = Len(isStdErr)
  /\ snap.isStdErr # <<>> => Len(snap.isStdErr[1]) = Len(snap.res)

\* GetComboOutSoFar(true) has returned lines of both streams while a reader
\* is inside an append
C4_Witness ==
  /\ snap.isStdErr # <<>>
  /\ \E i, j \in 1..Len(snap.res) : snap.isStdErr[1][i] /\ ~snap.isStdErr[1][j]
  /\ mut \in {"r0", "r1"}
  /\ Len(lines) # Len(isStdErr)

\* C5: every log entry holds bytes of one stream only and its tag names that
\* stream (true iff stderr); a pending fragment holds bytes of its own stream.
C5_OneStreamPerLine ==
  /\ \A i \in 1..Len(lines) :
       /\ lines[i] # <<>>
       /\ \A k \in 1..Len(lines[i]) : lines[i][k].s = lines[i][1].s
       /\ i <= Len(isStdErr) => (isStdErr[i] <=> lines[i][1].s = 1)
  /\ \A a \in Streams :
       halfline[a] # <<>> =>
         \A k \in 1..Len(halfline[a][1]) : halfline[a][1][k].s = a

\* a fragment of one stream was flushed and later prepended to the rest of
\* its line, the other stream has a line too, and both readers are done
C5_Witness ==
  /\ \A a \in Streams : Terminated(a) /\ EntriesOf(a) # {}
  /\ \E a \in Streams : \E i, j \in EntriesOf(a) :
       /\ i < j
       /\ ~HasSuffixNL(lines[i])
       /\ Len(lines[j]) = 2
       /\ lines[j][1] = lines[i][1]
  /\ Len(isStdErr) = Len(lines)

\* position in its stream of the first and of the last byte of log entry i
First(i) == lines[i][1].i
Last(i) == lines[i][Len(lines[i])].i

\* C6: the log entries of one stream are in the order of emission: the bytes
\* of an entry are consecutive bytes of the stream, a later entry neither
\* starts nor ends before an earlier one, and everything after a complete
\* line was emitted after that line. Nothing relates entries of different
\* streams.
C6_PerStreamOrder ==
  \A a \in Streams : \A i \in EntriesOf(a) :
    /\ \A k \in 1..(Len(lines[i]) - 1) : lines[i][k + 1].i = lines[i][k].i + 1
    /\ \A j \in EntriesOf(a) :
         i < j =>
           /\ First(i) <= First(j)
           /\ Last(i) <= Last(j)
           /\ HasSuffixNL(lines[i]) => Last(i) < First(j)

\* the final log holds two complete lines of one stream with a line of the
\* other stream between them
C6_Witness ==
  /\ Done = "closed"
  /\ \E a \in Streams : \E i, j \in EntriesOf(a) : \E k \in EntriesOf(1 - a) :
       /\ i < k /\ k < j
       /\ HasSuffixNL(lines[i])
       /\ HasSuffixNL(lines[j])

\* C7: a log entry without the terminator was flushed at end-of-stream and is
\* the last entry of its stream (so each stream has at most one).
C7_TerminatorHandling ==
  \A a \in Streams : \A i \in EntriesOf(a) :
    ~HasSuffixNL(lines[i]) =>
      /\ err[a] = "EOF"
      /\ \A j \in EntriesOf(a) : j <= i

\* every byte the child wrote is in some log entry
AllEmittedLogged ==
  \A a \in Streams : \A p \in 1..Len(emitted[a]) :
    \E i \in 1..Len(lines) : \E k \in 1..Len(lines[i]) :
      lines[i][k] = emitted[a][p]

\* C8: when the child started and exited with a failure status, c.Err is
\* non-nil once c.Done is closed and the log holds everything the child wrote;
\* from the moment cmd.Wait() is issued, c.lines and c.isStdErr do not change.
C8_FailurePreservesOutput ==
  /\ [](Done = "closed" /\ Started /\ ~exitOK =>
          /\ Err = "WaitFailure"
          /\ Len(isStdErr) = Len(lines)
          /\ AllEmittedLogged)
  /\ [][WaitIssued => lines' = lines /\ isStdErr' = isStdErr]_vars

\* Exec has completed with a wait failure and lines of both streams logged
C8_Witness ==
  /\ Done = "closed"
  /\ Err = "WaitFailure"
  /\ \A a \in Streams : EntriesOf(a) # {}

\* what c.Err must be, from the outcome of cmd.Start() and cmd.Wait()
Outcome ==
  IF ~Started THEN "StartFailure"
  ELSE IF child = "exited" /\ exitOK THEN "nil" ELSE "WaitFailure"

\* C9: c.Err has its final value before c.Done is closed and keeps it: when
\* Exec is about to close c.Done or has closed it, c.Err is the value Exec
\* returns, nil exactly when cmd.Start() and cmd.Wait() both succeeded.
C9_ErrBeforeDone ==
  /\ [](execPc \in {"closeDone", "returned"} => Err = ret /\ Err = Outcome)
  /\ [][(execPc \in {"closeDone", "returned"}) => (Err' = Err)]_vars

\* Exec has completed without error after capturing output
C9_Witness ==
  /\ Done = "closed"
  /\ Err = "nil"
  /\ lines # <<>>

\* cmd.Start() has failed
StartFailed == execPc = "startFailed" \/ ret = "StartFailure"

\* C10: once the start has failed the log is empty, the start error is what
\* Exec records and returns, and no reader goroutine exists.
C10_NoReaderOnStartFailure ==
  StartFailed =>
    /\ lines = <<>>
    /\ ret # "none" => Err = "StartFailure"
    /\ \A a \in Streams : rpc[a] = "none"

\* C11: once c.Done is closed, c.lines and c.isStdErr never change again: no
\* reader appends or flushes anything after completion, whichever return Exec
\* took (success, wait failure or start failure with readers still running).
C11_FrozenAfterDone ==
  [][(Done = "closed") => (lines' = lines /\ isStdErr' = isStdErr)]_vars

\* c.Done is closed after a start failure while a reader goroutine still runs
C11_Witness ==
  /\ Done = "closed"
  /\ ret = "StartFailure"
  /\ \E a \in Streams : rpc[a] \notin {"none", "done"}

\* C12: an observer reads the log only while it holds c.mut: GetComboOutSoFar
\* and BytesSoFar are never reading c.lines while a reader goroutine holds
\* the lock for an append or a flush.
C12_ObserversHoldLock ==
  /\ GcoReading => mut = "obs"
  /\ BsfReading => \A a \in Streams : mut # Holder(a)

\* C13: once the child has started, with fair scheduling and a child that
\* exits (so that both streams reach end-of-stream), Exec eventually returns
\* and closes c.Done, and then every byte the child wrote is in the log.
C13_EventuallyDone ==
  /\ Started ~> (Done = "closed")
  /\ [](Done = "closed" /\ Started => execPc = "returned" /\ AllEmittedLogged)

\* Exec has returned after a read error was retried, with everything the
\* child wrote to both streams in the log
C13_Witness ==
  /\ Done = "closed"
  /\ Started
  /\ nerrs > 0
  /\ \A a \in Streams : Len(emitted[a]) = MaxLen
  /\ AllEmittedLogged

\* the positions at which reader a holds c.mut
LockedPcs == {"appendTag", "unlock", "flushTag", "flushUnlock"}

\* C14: a reader holds c.mut only between its Lock() and Unlock() around one
\* append, never while it is in ReadString; so, with fair scheduling, a call
\* of GetComboOutSoFar that waits for the lock always returns, even if the
\* child never writes again and never exits.
C14_SnapshotReturns ==
  /\ [](\A a \in Streams : mut = Holder(a) <=> rpc[a] \in LockedPcs)
  /\ (opc = "lock") ~> (opc = "idle")

\* GetComboOutSoFar waits for the lock held by one reader while the other
\* reader is blocked in a read of a running child that has written nothing
C14_Witness ==
  /\ opc = "lock"
  /\ child = "running"
  /\ \E a \in Streams :
       /\ mut = Holder(a)
       /\ rpc[1 - a] = "read"
       /\ emitted[1 - a] = <<>>
       /\ ~wclosed[1 - a]

\* the locals and the pending slot of reader a are left as they are
RdrUntouched(a) ==
  /\ rpc'[a] = rpc[a]
  /\ line'[a] = line[a]
  /\ err'[a] = err[a]
  /\ halfline'[a] = halfline[a]

\* ReadString of reader a returns an error other than io.EOF in this step
ReadFails(a) == err[a] # "ioerr" /\ err'[a] = "ioerr"

\* C15: a read error other than io.EOF ends the reader that got it and only
\* that reader: it reads no more, the reader of the other stream is left
\* alone, and Exec still returns once the child has exited.
C15_ReadFailureEndsReader ==
  /\ [][\A a \in Streams : (err[a] = "ioerr") => (rpc'[a] # "read")]_vars
  /\ [][\A a \in Streams : ReadFails(a) => RdrUntouched(1 - a)]_vars
  /\ (Started /\ nerrs > 0) ~> (Done = "closed")

\* C15, amended: a read error other than io.EOF does not end the reader: it
\* goes round the outer loop and reads again, and returns only after io.EOF;
\* the failed read leaves the other reader alone, and Exec still returns once
\* the child has exited and both streams have reached end-of-stream.
C15_ReadFailureRetried ==
  /\ [][\A a \in Streams :
         (rpc[a] = "eofChk" /\ err[a] = "ioerr") =>
           (rpc'[a] \in {"eofChk", "read"})]_vars
  /\ [](\A a \in Streams : Terminated(a) => err[a] = "EOF")
  /\ [][\A a \in Streams : ReadFails(a) => RdrUntouched(1 - a)]_vars
  /\ (Started /\ nerrs > 0) ~> (Done = "closed")

\* after a failed read a reader has flushed the fragment it held and is in
\* ReadString again, while the other reader is still running
C15_Witness ==
  \E a \in Streams :
    /\ nerrs > 0
    /\ rpc[a] = "read"
    /\ err[a] = "nil"
    /\ halfline[a] # <<>>
    /\ \E i \in EntriesOf(a) : lines[i] = halfline[a][1]
    /\ rpc[1 - a] \notin {"none", "done"}

\* Exec has completed a session in which cmd.Start() and cmd.Wait() both
\* succeeded and a read of a reader failed with an error other than io.EOF
ReadFailedOnly == Done = "closed" /\ Started /\ exitOK /\ nerrs > 0

\* C16: a read error other than io.EOF is reported when nothing else failed:
\* after such a session c.Err is non-nil.
C16_ReadFailureReported == ReadFailedOnly => Err # "nil"

\* C16, amended: a read error other than io.EOF is never reported: no step
\* of a reader changes c.Err, and after a session in which cmd.Start() and
\* cmd.Wait() both succeeded c.Err is nil and Exec has returned nil, even
\* when a read failed.
C16_ReadFailureDropped ==
  /\ [](ReadFailedOnly => Err = "nil" /\ ret = "nil")
  /\ [][(rpc' # rpc) => (Err' = Err)]_vars

\* such a session has completed, with output captured after the failed read
C16_Witness ==
  /\ ReadFailedOnly
  /\ Err = "nil"
  /\ \E a \in Streams : \E i \in EntriesOf(a) :
       halfline[a] # <<>> /\ lines[i] = halfline[a][1]

\* C17: the reader goroutines are torn down inside Exec: whenever Exec has
\* returned, by whichever return, every reader goroutine that was spawned has
\* returned too.
C17_ReadersEndInsideExec ==
  execPc = "returned" => \A a \in Streams : rpc[a] \in {"none", "done"}

\* C18: a pending fragment is published once and its slot is cleared when it
\* is published: no byte of a stream is in two log entries (a fragment is
\* either prepended to the next line or flushed, never both), and once a
\* flush is over the pending slot of that stream is empty.
C18_PublishedOnce ==
  \A a \in Streams :
    /\ \A i, j \in EntriesOf(a) :
         i # j =>
           \A k \in 1..Len(lines[i]) : \A l \in 1..Len(lines[j]) :
             lines[i][k] # lines[j][l]
    /\ rpc[a] \in {"eofChk", "done"} => halfline[a] = <<>>

\* this step is taken by reader a, which holds c.mut when the step is over
StepUnderLock(a) == rpc'[a] # rpc[a] /\ mut' = Holder(a)

\* C19: every change of c.lines, c.isStdErr and of a pending slot
\* c.halfline[a] is made by a goroutine that holds c.mut, and the lock is
\* held for one append or flush only.
C19_AllUnderLock ==
  /\ [][(logVars' # logVars) => (\E a \in Streams : StepUnderLock(a))]_vars
  /\ [][\A a \in Streams :
         (halfline'[a] # halfline[a]) => StepUnderLock(a)]_vars
  /\ [][(mut # "free" /\ mut' = mut) => (lines' = lines)]_vars

\* C19, amended: every change of c.lines and c.isStdErr is made by a reader
\* goroutine that holds c.mut, and one Lock()/Unlock() pair covers one entry
\* of c.lines and its tag. A pending slot c.halfline[a] is changed by the
\* reader of stream a only: set without the lock after a read, cleared
\* under the lock when it is prepended.
C19_LogUnderLock ==
  /\ [][(logVars' # logVars) => (\E a \in Streams : StepUnderLock(a))]_vars
  /\ [][(mut # "free" /\ mut' = mut) => (lines' = lines)]_vars
  /\ [][(mut = "free" /\ mut' # "free") =>
         (Len(lines') = Len(lines) + 1)]_vars
  /\ [](mut = "free" => Len(isStdErr) = Len(lines))
  /\ [][\A a \in Streams :
         (halfline'[a] # halfline[a]) =>
           /\ rpc'[a] # rpc[a]
           /\ IF halfline'[a] = <<>>
              THEN mut = Holder(a) /\ mut' = Holder(a)
              ELSE rpc[a] = "read" /\ mut # Holder(a)]_vars

\* reader a has just stored a fragment in its pending slot while the other
\* reader holds c.mut inside an append
C19_Witness ==
  \E a \in Streams :
    /\ halfline[a] # <<>>
    /\ rpc[a] \in {"read", "flushLock"}
    /\ mut = Holder(1 - a)
    /\ Len(lines) # Len(isStdErr)

\* C20: however often Exec is called, c.Done is closed at most once: a call
\* of Exec on a CaptureOuts whose c.Done is closed does not try to close it
\* again.
C20_DoneClosedOnce ==
  /\ ~(execPc = "closeDone" /\ Done = "closed")
  /\ execPc # "panic"

\* C20, amended: c.Done is closed by the first call of Exec and never opened
\* again; a second call runs to its return, where its deferred close(c.Done)
\* is a close of a closed channel: it panics and the call does not return.
C20_SecondClosePanics ==
  /\ [][(Done = "closed") => (Done' = "closed")]_vars
  /\ [][(execPc = "closeDone" /\ Done = "closed" /\ execPc' # execPc) =>
         (execPc' = "panic")]_vars
  /\ [](execPc = "panic" => Done = "closed")

\* a second call of Exec has run its child to the exit, with output of both
\* streams in the log, and has panicked at its return
C20_Witness ==
  /\ execPc = "panic"
  /\ child = "exited"
  /\ \A a \in Streams : EntriesOf(a) # {}

====
